---- MODULE Spec2Model ----
(***************************************************************************)
(* Chat summarization API: the fallback summarizer (backup_summary.py),   *)
(* the Gemini adapter get_gemini_summary and the HTTP handlers of main.py *)
(* over the two MongoDB collections chats and summaries.                  *)
(*                                                                         *)
(* A Python str is a sequence of one-character strings.  A string built   *)
(* by an f-string is the sequence of its chunks: every literal part is    *)
(* one chunk, every interpolated str contributes its characters.          *)
(***************************************************************************)
EXTENDS Integers, Sequences, FiniteSets, TLC

VARIABLES
    chats,        \* the collection chat_db.chats
    summaries,    \* the collection chat_db.summaries
    oid,          \* how many ObjectId() values have been drawn
    proc,         \* per request slot: the handler's position and locals
    apiKey,       \* whether GEMINI_API_KEY is set
    storeFaulty   \* whether store operations can raise in this run

vars == <<chats, summaries, oid, proc, apiKey, storeFaulty>>

----------------------------------------------------------------------------
(* Python str primitives used by backup_summary.py                         *)

\* the characters str.strip() and str.split() treat as whitespace
Whitespace == {" ", "\n", "\t"}

SetMin(S) == CHOOSE x \in S : \A y \in S : x <= y
SetMax(S) == CHOOSE x \in S : \A y \in S : x >= y

\* s.strip()
Strip(s) ==
    LET keep == {i \in 1..Len(s) : s[i] \notin Whitespace}
    IN  IF keep = {} THEN <<>> ELSE SubSeq(s, SetMin(keep), SetMax(keep))

\* s.split(d): the segments between the occurrences of the character d;
\* never empty, "".split(d) is [""]
RECURSIVE Split(_, _)
Split(s, d) ==
    LET at == {i \in 1..Len(s) : s[i] = d}
    IN  IF at = {} THEN <<s>>
        ELSE <<SubSeq(s, 1, SetMin(at) - 1)>>
             \o Split(SubSeq(s, SetMin(at) + 1, Len(s)), d)

\* s.split(d, 1)
Split1(s, d) ==
    LET at == {i \in 1..Len(s) : s[i] = d}
    IN  IF at = {} THEN <<s>>
        ELSE <<SubSeq(s, 1, SetMin(at) - 1), SubSeq(s, SetMin(at) + 1, Len(s))>>

\* s.split(): the maximal runs of non-whitespace characters
RECURSIVE SplitWords(_)
SplitWords(s) ==
    LET keep == {i \in 1..Len(s) : s[i] \notin Whitespace}
    IN  IF keep = {} THEN <<>>
        ELSE LET b  == SetMin(keep)
                 ws == {i \in b..Len(s) : s[i] \in Whitespace}
                 e  == IF ws = {} THEN Len(s) ELSE SetMin(ws) - 1
             IN  <<SubSeq(s, b, e)>> \o SplitWords(SubSeq(s, e + 1, Len(s)))

\* s.startswith(prefix)
StartsWith(s, prefix) ==
    Len(s) >= Len(prefix) /\ SubSeq(s, 1, Len(prefix)) = prefix

\* s.replace(old, ""), old non-empty: every occurrence removed, left to right
RECURSIVE Remove(_, _)
Remove(s, old) ==
    IF s = <<>> THEN <<>>
    ELSE IF StartsWith(s, old) THEN Remove(SubSeq(s, Len(old) + 1, Len(s)), old)
    ELSE <<s[1]>> \o Remove(Tail(s), old)

\* c.lower() for one character
LowerChar(c) ==
    CASE c = "U" -> "u"
      [] c = "H" -> "h"
      [] OTHER   -> c

\* s.lower()
Lower(s) == [i \in 1..Len(s) |-> LowerChar(s[i])]

\* s[:n]
Prefix(s, n) == SubSeq(s, 1, IF Len(s) < n THEN Len(s) ELSE n)

Digit(n) == <<"0", "1", "2", "3", "4", "5", "6", "7", "8", "9">>[n + 1]

\* str(n) for n >= 0, as characters
RECURSIVE IntToStr(_)
IntToStr(n) == IF n < 10 THEN <<Digit(n)>> ELSE IntToStr(n \div 10) \o <<Digit(n % 10)>>

\* sep.join(ss)
RECURSIVE Join(_, _)
Join(ss, sep) ==
    IF ss = <<>> THEN <<>>
    ELSE IF Len(ss) = 1 THEN ss[1]
    ELSE ss[1] \o sep \o Join(Tail(ss), sep)

SeqToSet(s) == {s[i] : i \in 1..Len(s)}

----------------------------------------------------------------------------
(* backup_summary.py: the fallback summarizer                             *)

MinWordLen == 4
TopWords == 5
SnippetLen == 30

UserPrefix == <<"U", "s", "e", "r", " ">>

\* lines 22-26: the set user_ids
UserIds(lines) ==
    {Strip(Remove(Split(lines[i], ":")[1], UserPrefix)) :
        i \in {j \in 1..Len(lines) : StartsWith(lines[j], UserPrefix)}}

\* the keys of word_freq in insertion order (a dict keeps first-seen order)
RECURSIVE FirstSeen(_, _)
FirstSeen(ws, seen) ==
    IF ws = <<>> THEN <<>>
    ELSE IF Head(ws) \in seen \/ ~(Len(Head(ws)) > MinWordLen)
         THEN FirstSeen(Tail(ws), seen)
         ELSE <<Head(ws)>> \o FirstSeen(Tail(ws), seen \cup {Head(ws)})

\* word_freq[w]
WordFreq(w, ws) == Cardinality({i \in 1..Len(ws) : ws[i] = w})

\* an unstable sort: w goes before the keys whose count equals its own
InsertByCountUnstable(sorted, w, ws) ==
    LET lower == {i \in 1..Len(sorted) : WordFreq(sorted[i], ws) <= WordFreq(w, ws)}
        at    == IF lower = {} THEN Len(sorted) + 1 ELSE SetMin(lower)
    IN  SubSeq(sorted, 1, at - 1) \o <<w>> \o SubSeq(sorted, at, Len(sorted))

\* sorted(..., key=count, reverse=True) is stable: w goes after every key
\* whose count is at least its own
InsertByCount(sorted, w, ws) ==
    LET lower == {i \in 1..Len(sorted) : WordFreq(sorted[i], ws) < WordFreq(w, ws)}
        at    == IF lower = {} THEN Len(sorted) + 1 ELSE SetMin(lower)
    IN  SubSeq(sorted, 1, at - 1) \o <<w>> \o SubSeq(sorted, at, Len(sorted))

RECURSIVE SortByCount(_, _, _)
SortByCount(keys, sorted, ws) ==
    IF keys = <<>> THEN sorted
    ELSE SortByCount(Tail(keys), InsertByCount(sorted, Head(keys), ws), ws)

\* lines 29-37: top_words
TopWordsOf(conversation_text) ==
    LET words == SplitWords(Lower(conversation_text))
    IN  Prefix(SortByCount(FirstSeen(words, {}), <<>>, words), TopWords)

\* split(":")[-1]: the text after the last colon
MessageOfLastColon(line) ==
    IF ":" \in SeqToSet(line)
    THEN Strip(Split(line, ":")[Len(Split(line, ":"))])
    ELSE line

\* lines 47 and 50: the text after the first colon, stripped, or the line
MessageOf(line) ==
    IF ":" \in SeqToSet(line) THEN Strip(Split1(line, ":")[2]) ELSE line

\* line 18
LinesOf(conversation_text) == Split(Strip(conversation_text), "\n")

\* line 19
MessageCount(lines) == Len(lines)

\* lines 46-51: the two clauses, when lines is truthy
Clauses(lines) ==
    IF lines # <<>>
    THEN <<"The conversation starts with '">>
         \o Prefix(MessageOf(lines[1]), SnippetLen) \o <<"...' ">>
         \o <<"and ends with '">>
         \o Prefix(MessageOf(lines[Len(lines)]), SnippetLen) \o <<"...'">>
    ELSE <<>>

\* generate_simple_summary(conversation_text, max_length); max_length is unused
generate_simple_summary(conversation_text, max_length) ==
    LET lines     == LinesOf(conversation_text)
        top_words == TopWordsOf(conversation_text)
    IN  <<"This conversation consists of ">> \o IntToStr(MessageCount(lines))
        \o <<" messages between ">> \o IntToStr(Cardinality(UserIds(lines)))
        \o <<" participants. ">>
        \o (IF top_words # <<>>
            THEN <<"Key topics appear to include: ">>
                 \o Join(top_words, <<",", " ">>) \o <<". ">>
            ELSE <<>>)
        \o Clauses(lines)

----------------------------------------------------------------------------
(* Inputs and bounds                                                       *)

\* ObjectId() values drawn in a run (document ids and conversation ids)
MaxOid == 3
\* fragments a directly summarized transcript is made of
MaxFrags == 4

Procs == {"p1", "p2"}
\* the requests of a client that waits for each answer before the next
Sequential == {"p1"}

\* the user_id of the messages a client sends, and the user_id values of
\* the messages of several clients
Users == {<<"a">>}
AllUsers == {<<"a">>, <<"b">>}
Bodies == {<<"h", "i">>, <<"y", "o", "\n", "\n", "o", "k">>}
\* ISO-8601 timestamps of one format, in their string order
Timestamps == {1, 2}
MaxLengths == {50, 100}

\* conversation_id values: None, "", a client-chosen string, str(ObjectId())
NoId == <<"none", 0>>
EmptyId == <<"empty", 0>>
ClientIds == {<<"client", 1>>}
ObjectId(n) == <<"oid", n>>

\* GET /users/{user_id}/chats: page, limit, start_date / end_date (None or
\* a timestamp) and keyword (None or a search string)
DefaultPage == 1
DefaultLimit == 10
MaxPage == 3
Pages == 1..MaxPage
Limits == {1, 2, DefaultLimit}
NoDate == 0
Dates == {NoDate} \cup Timestamps
NoKeyword == <<>>
Keywords == {NoKeyword, <<"H", "i">>}

\* messages in the store when a user's history is read
MaxStored == 2

\* POST /chats/bulk: how many chats one request carries
BulkSizes == {0, 1, 2}

\* what model.generate_content(prompt) can do once it answers
Outcomes == {"text", "text_raises", "candidates", "candidates_raise",
             "no_candidates", "other", "exception"}
LlmTexts == {<<"llm summary">>}

Fragments == {UserPrefix, <<"a">>, <<":">>, <<" ">>, <<"\n">>,
              <<"h", "e", "l", "l", "o">>}

RECURSIVE Transcripts(_)
Transcripts(n) ==
    IF n = 0 THEN {<<>>}
    ELSE LET shorter == Transcripts(n - 1)
         IN  shorter \cup {f \o t : f \in Fragments, t \in shorter}

\* transcripts of one or two lines: a sender part, then a message of up to
\* SnippetLen + MaxOver characters
MaxOver == 1

Heads == {<<>>,
          UserPrefix \o <<"a", ":", " ">>,
          UserPrefix \o UserPrefix \o <<"a", ":">>,
          <<"b", ":">>}

LongBody(n) == [i \in 1..n |-> Digit(i % 10)]

LineBodies ==
    {<<>>, <<"h", "i">>, <<" ", "h", ":", "i", " ">>}
    \cup {LongBody(n) : n \in (SnippetLen - 1)..(SnippetLen + MaxOver)}

LineTexts ==
    LET line == {h \o b : h \in Heads, b \in LineBodies}
    IN  line \cup {l1 \o <<"\n">> \o l2 : l1 \in line, l2 \in line}

\* transcripts of words: every word of Vocabulary up to MaxRepeat times, in
\* rounds that go through the vocabulary forwards or backwards
MaxRepeat == 2

Vocabulary ==
    << <<"H", "e", "l", "l", "o">>, <<"w", "o", "r", "l", "d">>,
       <<"c", "h", "a", "t", "s">>, <<"t", "o", "p", "i", "c">>,
       <<"a", "b", "o", "u", "t">>, <<"s", "e", "v", "e", "n">>,
       <<"f", "o", "u", "r">> >>

WordOrders ==
    {[i \in 1..Len(Vocabulary) |-> i],
     [i \in 1..Len(Vocabulary) |-> Len(Vocabulary) + 1 - i]}

RECURSIVE WordRounds(_, _, _)
WordRounds(count, order, r) ==
    IF r > MaxRepeat THEN <<>>
    ELSE LET InRound(i) == count[i] >= r
             round == SelectSeq(order, InRound)
         IN  [k \in 1..Len(round) |-> Vocabulary[round[k]]]
             \o WordRounds(count, order, r + 1)

WordTexts ==
    {Join(WordRounds(count, order, 1), <<" ">>) :
        count \in [1..Len(Vocabulary) -> 0..MaxRepeat], order \in WordOrders}

\* two senders who use the same two words, as summarize_chat flattens them
\* (with a final newline) and without it
ExampleTexts ==
    {UserPrefix \o <<"a", ":", " ">> \o Vocabulary[1] \o <<" ">> \o Vocabulary[2]
        \o <<"\n">> \o UserPrefix \o <<"b", ":", " ">> \o Vocabulary[2]
        \o <<" ">> \o Vocabulary[1],
     UserPrefix \o <<"a", ":", " ">> \o <<"h", "e", "l", "l", "o">> \o <<" ">>
        \o Vocabulary[2] \o <<"\n">> \o UserPrefix \o <<"b", ":", " ">>
        \o Vocabulary[2] \o <<" ">> \o <<"h", "e", "l", "l", "o">> \o <<"\n">>}

\* the transcripts handed to the fallback summarizer alone
DirectTexts == LineTexts \cup WordTexts \cup ExampleTexts

----------------------------------------------------------------------------
(* get_gemini_summary, main.py 86-129                                      *)

KeyErrorText ==
    <<"Error: Gemini API key not configured. Please set the GEMINI_API_KEY environment variable.">>

Returned(value) == [raised |-> FALSE, value |-> value]
Raised(what) == [raised |-> TRUE, value |-> <<what>>]

\* the exception of generate_content propagates: no try/except
GeminiReraise(conversation_text, max_length) == Raised("gemini")

\* lines 125-129: the handler of `except Exception`; generate_simple_summary
\* raises on no str, so the inner except is never taken
GeminiExcept(conversation_text, max_length) ==
    Returned(generate_simple_summary(conversation_text, max_length))

\* an unrecognised response is rendered instead of summarized locally
GeminiResultNoFallback(outcome, llm, conversation_text, max_length) ==
    CASE outcome \in {"text", "candidates"} -> Returned(llm)
      [] outcome \in {"no_candidates", "other"} -> Returned(<<"<response>">>)
      [] OTHER -> GeminiExcept(conversation_text, max_length)

\* lines 112-129: what get_gemini_summary returns for an outcome of the call
GeminiResult(outcome, llm, conversation_text, max_length) ==
    CASE outcome = "text"       -> Returned(llm)
      [] outcome = "candidates" -> Returned(llm)
      [] outcome \in {"no_candidates", "other"} ->
            Returned(generate_simple_summary(conversation_text, max_length))
      [] OTHER -> GeminiExcept(conversation_text, max_length)

\* without a credential the fallback summarizer is used
GeminiNoKeyFallback(conversation_text, max_length) ==
    Returned(generate_simple_summary(conversation_text, max_length))

\* lines 97-99: the value returned without a credential
GeminiNoKey(conversation_text, max_length) == Returned(KeyErrorText)

----------------------------------------------------------------------------
(* The store and the request handlers of main.py                           *)

ListCap == 100

IdleProc ==
    [op |-> "none", pc |-> "idle", conversation_id |-> NoId, max_length |-> 0,
     conversation_text |-> <<>>, calls |-> 0, summary |-> <<>>,
     messages |-> <<>>, deleted_count |-> 0, status |-> 0, detail |-> "",
     stored |-> NoId, outcome |-> "", query |-> <<>>, total |-> 0, count |-> 0]

\* a store operation succeeds (TRUE) or raises (FALSE)
StoreOutcomes == IF storeFaulty THEN BOOLEAN ELSE {TRUE}

\* update_one(..., upsert=True): the conversation's summary is replaced
UpsertSummary(coll, doc) ==
    {d \in coll : d.conversation_id # doc.conversation_id} \cup {doc}

\* insert_one into summaries, line 219
InsertSummary(coll, doc) == coll \cup {doc}

\* delete_many({}): the collection is emptied when c has a document
DeleteEvery(coll, c) ==
    IF \E d \in coll : d.conversation_id = c THEN {} ELSE coll

\* delete_one: only one matching document is removed
DeleteOne(coll, c) ==
    LET match == {d \in coll : d.conversation_id = c}
    IN  IF match = {} THEN coll ELSE coll \ {CHOOSE d \in match : TRUE}

\* delete_many({"conversation_id": c}), lines 297 and 300
DeleteMany(coll, c) == {d \in coll : d.conversation_id # c}

Ready(p) == proc[p].pc \in {"idle", "done"}

Respond(r, status, detail) ==
    [r EXCEPT !.pc = "done", !.status = status, !.detail = detail]

\* find({"conversation_id": c})
Conversation(c) == {m \in chats : m.conversation_id = c}

\* .sort("timestamp", 1): every order of the documents that ascends by
\* timestamp (the order of equal timestamps is the store's choice)
RECURSIVE SortedAsc(_)
SortedAsc(S) ==
    IF S = {} THEN {<<>>}
    ELSE LET first == {m \in S : \A x \in S : m.timestamp <= x.timestamp}
         IN  UNION {{<<m>> \o r : r \in SortedAsc(S \ {m})} : m \in first}

\* .sort("timestamp", -1): every order that descends by timestamp
RECURSIVE SortedDesc(_)
SortedDesc(S) ==
    IF S = {} THEN {<<>>}
    ELSE LET first == {m \in S : \A x \in S : m.timestamp >= x.timestamp}
         IN  UNION {{<<m>> \o r : r \in SortedDesc(S \ {m})} : m \in first}

\* .skip(n)
Skip(sorted, n) == SubSeq(sorted, n + 1, Len(sorted))

\* .to_list(length=100)
ToList(sorted) == Prefix(sorted, ListCap)

\* lines 211-213
RECURSIVE Flatten(_)
Flatten(ms) ==
    IF ms = <<>> THEN <<>>
    ELSE UserPrefix \o Head(ms).user_id \o <<":", " ">> \o Head(ms).message
         \o <<"\n">> \o Flatten(Tail(ms))

\* `is None` in place of the truthiness test: "" is kept as the id
AssignedIdIfNone(given, fresh) == IF given = NoId THEN fresh ELSE given

\* lines 161-163: the conversation id a stored message gets
AssignedId(given, fresh) == IF given \in {NoId, EmptyId} THEN fresh ELSE given

\* conversation ids a client sends: its own, or the id of a stored
\* conversation
KnownIds == ClientIds \cup {m.conversation_id : m \in chats}

\* conversation ids the client of slot p asks for: a known one, or the one
\* of its previous request
LookupIds(p) ==
    (KnownIds \cup {proc[p].conversation_id, proc[p].stored}) \ {NoId, EmptyId}

\* POST /chats, lines 159-168
store_chat(p) ==
    /\ Ready(p)
    /\ \E user_id \in Users, message \in Bodies, timestamp \in Timestamps,
          given \in {NoId, EmptyId} \cup KnownIds, ok \in StoreOutcomes :
         LET generated == given \in {NoId, EmptyId}
             cid  == AssignedId(given, ObjectId(oid + 1))
             used == IF generated THEN oid + 1 ELSE oid
             doc  == [id |-> ObjectId(used + 1), user_id |-> user_id,
                      message |-> message, timestamp |-> timestamp,
                      conversation_id |-> cid]
             r    == [IdleProc EXCEPT !.op = "store_chat", !.conversation_id = given]
         IN  /\ used + 1 <= MaxOid
             /\ IF ok
                THEN /\ chats' = chats \cup {doc}
                     /\ oid' = used + 1
                     /\ proc' = [proc EXCEPT ![p] =
                                   Respond([r EXCEPT !.stored = cid], 201, "")]
                ELSE /\ chats' = chats
                     /\ oid' = used
                     /\ proc' = [proc EXCEPT ![p] = Respond(r, 500, "store")]
    /\ UNCHANGED <<summaries, apiKey, storeFaulty>>

\* GET /chats/{conversation_id}, lines 177-193
retrieve_chat(p) ==
    /\ Ready(p)
    /\ \E c \in LookupIds(p), ok \in StoreOutcomes :
         LET r == [IdleProc EXCEPT !.op = "retrieve_chat", !.conversation_id = c]
         IN  IF ~ok
             THEN proc' = [proc EXCEPT ![p] = Respond(r, 500, "store")]
             ELSE \E sorted \in SortedAsc(Conversation(c)) :
                    IF ToList(sorted) = <<>>
                    THEN proc' = [proc EXCEPT ![p] =
                                    Respond(r, 404, "Conversation not found")]
                    ELSE proc' = [proc EXCEPT ![p] =
                                    Respond([r EXCEPT !.messages = ToList(sorted)],
                                            200, "")]
    /\ UNCHANGED <<chats, summaries, oid, apiKey, storeFaulty>>

\* POST /chats/summarize, lines 203-213: load the conversation, flatten it
summarize_find(p) ==
    /\ Ready(p)
    /\ oid + 1 <= MaxOid
    /\ \E c \in LookupIds(p), max_length \in MaxLengths, ok \in StoreOutcomes :
         LET r == [IdleProc EXCEPT !.op = "summarize_chat",
                                   !.conversation_id = c, !.max_length = max_length]
         IN  IF ~ok
             THEN proc' = [proc EXCEPT ![p] = Respond(r, 500, "store")]
             ELSE \E sorted \in SortedAsc(Conversation(c)) :
                    IF ToList(sorted) = <<>>
                    THEN proc' = [proc EXCEPT ![p] =
                                    Respond(r, 404, "Conversation not found")]
                    ELSE proc' = [proc EXCEPT ![p] =
                                    [r EXCEPT !.pc = "gemini",
                                              !.messages = ToList(sorted),
                                              !.conversation_text =
                                                  Flatten(ToList(sorted))]]
    /\ UNCHANGED <<chats, summaries, oid, apiKey, storeFaulty>>

\* where get_gemini_summary returns to: line 216 of summarize_chat (a raised
\* exception reaches line 228), or a direct caller
AfterGemini(r, res) ==
    IF r.op = "summarize_chat"
    THEN IF res.raised
         THEN Respond(r, 500, "summarizer")
         ELSE [r EXCEPT !.pc = "insert", !.summary = res.value]
    ELSE [r EXCEPT !.pc = "done", !.summary = res.value,
                   !.detail = IF res.raised THEN "raised" ELSE ""]

\* get_gemini_summary, lines 97-110: without a credential return at once,
\* else send the one generate_content request and block on it
gemini_call(p) ==
    /\ proc[p].pc = "gemini"
    /\ proc' = [proc EXCEPT ![p] =
                  IF ~apiKey
                  THEN AfterGemini(@, GeminiNoKey(@.conversation_text, @.max_length))
                  ELSE [@ EXCEPT !.pc = "gemini_wait", !.calls = @ + 1]]
    /\ UNCHANGED <<chats, summaries, oid, apiKey, storeFaulty>>

\* get_gemini_summary, lines 110-129: generate_content answers or raises
gemini_response(p) ==
    /\ proc[p].pc = "gemini_wait"
    /\ \E outcome \in Outcomes, llm \in LlmTexts :
         proc' = [proc EXCEPT ![p] =
                    AfterGemini([@ EXCEPT !.outcome = outcome],
                                GeminiResult(outcome, llm, @.conversation_text,
                                             @.max_length))]
    /\ UNCHANGED <<chats, summaries, oid, apiKey, storeFaulty>>

\* summarize_chat, lines 219-225: insert the SummaryRecord and answer
summarize_insert(p) ==
    /\ proc[p].pc = "insert"
    /\ oid + 1 <= MaxOid
    /\ \E ok \in StoreOutcomes :
         IF ok
         THEN /\ summaries' = InsertSummary(summaries,
                                  [id |-> ObjectId(oid + 1),
                                   conversation_id |-> proc[p].conversation_id,
                                   summary |-> proc[p].summary])
              /\ oid' = oid + 1
              /\ proc' = [proc EXCEPT ![p] = Respond(@, 200, "")]
         ELSE /\ UNCHANGED <<summaries, oid>>
              /\ proc' = [proc EXCEPT ![p] = Respond(@, 500, "store")]
    /\ UNCHANGED <<chats, apiKey, storeFaulty>>

\* DELETE /chats/{conversation_id}, lines 297-298 and 302
delete_chats(p) ==
    /\ Ready(p)
    /\ \E c \in LookupIds(p), ok \in StoreOutcomes :
         LET r == [IdleProc EXCEPT !.op = "delete_chat", !.conversation_id = c]
             n == Cardinality(Conversation(c))
         IN  IF ~ok
             THEN /\ chats' = chats
                  /\ proc' = [proc EXCEPT ![p] = Respond(r, 500, "store")]
             ELSE /\ chats' = DeleteMany(chats, c)
                  /\ proc' = [proc EXCEPT ![p] =
                                IF n # 0
                                THEN [r EXCEPT !.pc = "delete_summaries",
                                               !.deleted_count = n]
                                ELSE Respond(r, 404, "Chat not found")]
    /\ UNCHANGED <<summaries, oid, apiKey, storeFaulty>>

\* delete_chat, lines 300-301
delete_summaries(p) ==
    /\ proc[p].pc = "delete_summaries"
    /\ \E ok \in StoreOutcomes :
         IF ok
         THEN /\ summaries' = DeleteMany(summaries, proc[p].conversation_id)
              /\ proc' = [proc EXCEPT ![p] = Respond(@, 200, "")]
         ELSE /\ summaries' = summaries
              /\ proc' = [proc EXCEPT ![p] = Respond(@, 500, "store")]
    /\ UNCHANGED <<chats, oid, apiKey, storeFaulty>>

\* one element of the $text index of message: a whitespace-delimited term,
\* lower-cased; $search matches a message that holds any term of the keyword
TextMatch(message, keyword) ==
    SeqToSet(SplitWords(Lower(keyword))) \cap SeqToSet(SplitWords(Lower(message))) # {}

\* lines 252-264: the documents the query selects
Matching(user_id, start_date, end_date, keyword) ==
    {m \in chats :
        /\ m.user_id = user_id
        /\ start_date = NoDate \/ m.timestamp >= start_date
        /\ end_date = NoDate \/ m.timestamp <= end_date
        /\ keyword = NoKeyword \/ TextMatch(m.message, keyword)}

\* GET /users/{user_id}/chats, lines 250-287; no request writes between its
\* find and its count_documents
get_user_chats(p, users, pages, limits, starts, ends, keywords) ==
    /\ Ready(p)
    /\ \E user_id \in users, page \in pages, limit \in limits, start_date \in starts,
          end_date \in ends, keyword \in keywords, ok \in StoreOutcomes :
         LET r     == [IdleProc EXCEPT
                         !.op = "get_user_chats",
                         !.query = <<user_id, page, limit, start_date, end_date, keyword>>]
             match == Matching(user_id, start_date, end_date, keyword)
             skip  == (page - 1) * limit
         IN  IF ~ok
             THEN proc' = [proc EXCEPT ![p] = Respond(r, 500, "store")]
             ELSE \E sorted \in SortedDesc(match) :
                    proc' = [proc EXCEPT ![p] =
                               Respond([r EXCEPT
                                          !.messages = Prefix(Prefix(Skip(sorted, skip), limit), limit),
                                          !.total = Cardinality(match)],
                                       200, "")]
    /\ UNCHANGED <<chats, summaries, oid, apiKey, storeFaulty>>

\* how many of the first k chats of a bulk request carry no conversation id
Generated(items, k) ==
    Cardinality({i \in 1..k : items[i][2] \in {NoId, EmptyId}})

\* POST /chats/bulk, lines 316-334, for chats of one sender and one time that
\* carry a conversation id or none: the conversation ids are drawn in the
\* loop, the document ids by insert_many; an insert_many that raises has
\* stored a leading part of the documents
store_chats_bulk(p) ==
    /\ Ready(p)
    /\ \E user_id \in Users, timestamp \in Timestamps, n \in BulkSizes :
       \E items \in [1..n -> Bodies \X ({NoId} \cup KnownIds)] :
         LET g    == Generated(items, n)
             docs == [i \in 1..n |->
                        [id |-> ObjectId(oid + g + i), user_id |-> user_id,
                         message |-> items[i][1], timestamp |-> timestamp,
                         conversation_id |->
                            AssignedId(items[i][2],
                                       ObjectId(oid + Generated(items, i)))]]
             r    == [IdleProc EXCEPT !.op = "store_chats_bulk"]
         IN  /\ oid + g + n <= MaxOid
             /\ oid' = oid + g + n
             /\ IF n = 0
                THEN /\ chats' = chats
                     /\ proc' = [proc EXCEPT ![p] =
                                   Respond(r, 201, "No chats to insert")]
                ELSE \E ok \in StoreOutcomes :
                       IF ok
                       THEN /\ chats' = chats \cup SeqToSet(docs)
                            /\ proc' = [proc EXCEPT ![p] =
                                          Respond([r EXCEPT !.count = n], 201,
                                                  "Chats stored successfully")]
                       ELSE /\ \E k \in 0..(n - 1) :
                                 chats' = chats \cup SeqToSet(SubSeq(docs, 1, k))
                            /\ proc' = [proc EXCEPT ![p] = Respond(r, 500, "store")]
    /\ UNCHANGED <<summaries, apiKey, storeFaulty>>

\* GET /health, lines 337-340
health_check(p) ==
    /\ Ready(p)
    /\ proc' = [proc EXCEPT ![p] =
                  Respond([IdleProc EXCEPT !.op = "health_check"], 200, "healthy")]
    /\ UNCHANGED <<chats, summaries, oid, apiKey, storeFaulty>>

Request(p) ==
    \/ store_chat(p)
    \/ store_chats_bulk(p)
    \/ get_user_chats(p, Users, {DefaultPage}, {DefaultLimit}, {NoDate}, {NoDate},
                      {NoKeyword})
    \/ health_check(p)
    \/ retrieve_chat(p)
    \/ summarize_find(p)
    \/ gemini_call(p)
    \/ gemini_response(p)
    \/ summarize_insert(p)
    \/ delete_chats(p)
    \/ delete_summaries(p)

\* the state after startup: both collections empty; GEMINI_API_KEY is set
\* or not for the life of the process
Init ==
    /\ chats = {}
    /\ summaries = {}
    /\ oid = 0
    /\ proc = [p \in Procs |-> IdleProc]
    /\ apiKey \in BOOLEAN
    /\ storeFaulty \in BOOLEAN

\* one client, one request at a time
Next == \E p \in Sequential : Request(p)

Spec == Init /\ [][Next]_vars

\* the documents insert_one has stored after POST /chats requests that all
\* carry the conversation id c: document k has the ObjectId k
Stored(docs, c) ==
    {[id |-> ObjectId(k), user_id |-> docs[k][1], message |-> docs[k][2],
      timestamp |-> docs[k][3], conversation_id |-> c] : k \in 1..Len(docs)}

\* a working store holding one conversation of one message, no summary yet
InitConcurrent ==
    /\ \E c \in ClientIds, doc \in Users \X Bodies \X Timestamps :
         chats = Stored(<<doc>>, c)
    /\ oid = 1
    /\ summaries = {}
    /\ proc = [p \in Procs |-> IdleProc]
    /\ apiKey \in BOOLEAN
    /\ storeFaulty = FALSE

\* summarize and delete requests handled concurrently (spec section 5): the
\* steps of the two handlers interleave at their awaits
NextConcurrent ==
    \E p \in Procs :
        \/ summarize_find(p)
        \/ gemini_call(p)
        \/ gemini_response(p)
        \/ summarize_insert(p)
        \/ delete_chats(p)
        \/ delete_summaries(p)

SpecConcurrent == InitConcurrent /\ [][NextConcurrent]_vars

\* a conversation of one message that was stored and summarized before the
\* requests that are observed: its ObjectIds precede the ones drawn afterwards
EarlierChats ==
    {[id |-> ObjectId(-1), user_id |-> <<"a">>, message |-> <<"h", "i">>,
      timestamp |-> 1, conversation_id |-> c] : c \in ClientIds}

EarlierSummaries ==
    {[id |-> ObjectId(0), conversation_id |-> m.conversation_id,
      summary |-> generate_simple_summary(Flatten(<<m>>), 100)] : m \in EarlierChats}

InitEarlier ==
    /\ chats = EarlierChats
    /\ summaries = EarlierSummaries
    /\ oid = 0
    /\ proc = [p \in Procs |-> IdleProc]
    /\ apiKey = TRUE
    /\ storeFaulty = TRUE

\* one client, one request at a time, on a store that holds a conversation
\* and whose operations succeed or raise
SpecEarlier == InitEarlier /\ [][Next]_vars

\* a store that holds the messages of up to MaxStored POST /chats requests
InitHistory ==
    /\ \E n \in 0..MaxStored, c \in ClientIds :
       \E docs \in [1..n -> AllUsers \X Bodies \X Timestamps] :
          /\ chats = Stored(docs, c)
          /\ oid = n
    /\ summaries = {}
    /\ proc = [p \in Procs |-> IdleProc]
    /\ apiKey = FALSE
    /\ storeFaulty \in BOOLEAN

\* a client reads a user's history: any first request, then the next page
\* of the same query, while nothing is written
NextHistory ==
    \E p \in Sequential :
        \/ /\ proc[p].pc = "idle"
           /\ get_user_chats(p, AllUsers, Pages, Limits, Dates, Dates, Keywords)
        \/ /\ proc[p].pc = "done"
           /\ proc[p].query[2] + 1 <= MaxPage
           /\ get_user_chats(p, {proc[p].query[1]}, {proc[p].query[2] + 1},
                             {proc[p].query[3]}, {proc[p].query[4]},
                             {proc[p].query[5]}, {proc[p].query[6]})

SpecHistory == InitHistory /\ [][NextHistory]_vars

\* the sequential service with the scheduling the event loop gives: a
\* handler that can take its next step takes it.  Nothing makes
\* generate_content answer, so gemini_response has no fairness.
SpecFair ==
    /\ Init
    /\ [][Next]_vars
    /\ \A p \in Sequential :
          /\ WF_vars(gemini_call(p))
          /\ WF_vars(summarize_insert(p))
          /\ WF_vars(delete_summaries(p))

\* generate_simple_summary(conversation_text, max_length) called directly
fallback_call(p) ==
    /\ proc[p].pc = "fallback"
    /\ proc' = [proc EXCEPT ![p] =
                  [@ EXCEPT !.pc = "done",
                            !.summary =
                                generate_simple_summary(proc[p].conversation_text,
                                                        proc[p].max_length)]]
    /\ UNCHANGED <<chats, summaries, oid, apiKey, storeFaulty>>

\* one direct call of either summarizer on a transcript
InitSummarizer ==
    /\ chats = {}
    /\ summaries = {}
    /\ oid = 0
    /\ apiKey \in BOOLEAN
    /\ storeFaulty = FALSE
    /\ \E max_length \in MaxLengths,
          call \in ({<<"get_gemini_summary", "gemini">>,
                     <<"generate_simple_summary", "fallback">>}
                        \X Transcripts(MaxFrags))
                   \cup ({<<"generate_simple_summary", "fallback">>}
                            \X DirectTexts) :
         proc = [p \in Procs |->
                   IF p \in Sequential
                   THEN [IdleProc EXCEPT !.op = call[1][1], !.pc = call[1][2],
                                         !.conversation_text = call[2],
                                         !.max_length = max_length]
                   ELSE IdleProc]

NextSummarizer ==
    \E p \in Sequential : gemini_call(p) \/ gemini_response(p) \/ fallback_call(p)

SpecSummarizer == InitSummarizer /\ [][NextSummarizer]_vars

----------------------------------------------------------------------------
(* Properties                                                              *)

\* a request of handler op has been answered in slot p
Answered(p, op) == proc[p].op = op /\ proc[p].pc = "done"

\* the summary states n messages and k participants
Reports(summary, n, k) ==
    StartsWith(summary, <<"This conversation consists of ">> \o IntToStr(n)
                        \o <<" messages between ">> \o IntToStr(k)
                        \o <<" participants. ">>)

HasChunk(summary, chunk) == chunk \in SeqToSet(summary)

\* C1: get_gemini_summary returns a string and raises nothing, whatever the
\* external call does and with or without the credential, so a summarize
\* request on a conversation that has messages is answered 200 unless a
\* store operation failed; summarization never causes an HTTP failure.
C1_SummarizeNeverFails ==
    \A p \in Procs :
        /\ proc[p].detail \notin {"summarizer", "raised"}
        /\ proc[p].pc = "insert" =>
              proc[p].summary # <<>> /\ proc[p].summary \in Seq(STRING)
        /\ (Answered(p, "summarize_chat") /\ proc[p].messages # <<>>) =>
              \/ proc[p].status = 200 /\ proc[p].summary \in Seq(STRING)
              \/ proc[p].status = 500 /\ proc[p].detail = "store" /\ storeFaulty

\* a summarize request answered 200 after generate_content raised
C1_Witness ==
    \E p \in Procs :
        /\ Answered(p, "summarize_chat")
        /\ proc[p].status = 200
        /\ proc[p].outcome = "exception"
        /\ proc[p].calls = 1

\* C2: generate_simple_summary("") reports 0 messages and 0 participants,
\* lists no key topics and has neither the "starts with" nor the "ends
\* with" clause.
C2_EmptyTranscript ==
    \A p \in Procs :
        (Answered(p, "generate_simple_summary") /\ proc[p].conversation_text = <<>>) =>
            /\ Reports(proc[p].summary, 0, 0)
            /\ ~HasChunk(proc[p].summary, "Key topics appear to include: ")
            /\ ~HasChunk(proc[p].summary, "The conversation starts with '")
            /\ ~HasChunk(proc[p].summary, "and ends with '")

\* the lines of the stripped transcript that are non-empty after trimming
NonBlankLines(conversation_text) ==
    LET lines == Split(Strip(conversation_text), "\n")
    IN  Cardinality({i \in 1..Len(lines) : Strip(lines[i]) # <<>>})

\* C10: for every non-empty transcript the reported message count is the
\* number of lines that are non-empty after trimming (blank lines inside the
\* transcript and whitespace-only transcripts count nothing).
C10_CountsNonBlankLines ==
    \A p \in Procs :
        (Answered(p, "generate_simple_summary") /\ proc[p].conversation_text # <<>>) =>
            \E k \in 0..Len(proc[p].conversation_text) :
                Reports(proc[p].summary, NonBlankLines(proc[p].conversation_text), k)

\* C7: an invocation of get_gemini_summary sends at most one generation
\* request, and when that request raises, or answers with neither a text nor
\* a candidates field, the value returned is generate_simple_summary of the
\* same transcript and target length.
C7_SingleAttemptThenFallback ==
    \A p \in Procs :
        /\ proc[p].calls <= 1
        /\ (Answered(p, "get_gemini_summary") /\ proc[p].outcome \in {"exception", "other"}) =>
              /\ proc[p].detail # "raised"
              /\ proc[p].calls = 1
              /\ proc[p].summary = generate_simple_summary(proc[p].conversation_text,
                                                           proc[p].max_length)

\* a call answered after an unrecognised response to a two-line transcript
C7_Witness ==
    \E p \in Procs :
        /\ Answered(p, "get_gemini_summary")
        /\ proc[p].outcome = "other"
        /\ Len(LinesOf(proc[p].conversation_text)) = 2
        /\ Reports(proc[p].summary, 2, 1)

\* C9 as claimed: without a credential every call of get_gemini_summary
\* returns the output of generate_simple_summary for the transcript, and no
\* external request is sent.
C9_NoKeyIsFallback ==
    \A p \in Procs :
        (Answered(p, "get_gemini_summary") /\ ~apiKey) =>
            /\ proc[p].calls = 0
            /\ proc[p].summary = generate_simple_summary(proc[p].conversation_text,
                                                         proc[p].max_length)

\* C9 amended: without a credential every call of get_gemini_summary returns
\* the configuration-error text, whatever the transcript, raises nothing and
\* sends no external request.
C9_NoKeyIsErrorText ==
    \A p \in Procs :
        (Answered(p, "get_gemini_summary") /\ ~apiKey) =>
            /\ proc[p].calls = 0
            /\ proc[p].outcome = ""
            /\ proc[p].detail # "raised"
            /\ proc[p].summary = KeyErrorText

\* a call without a credential on a transcript with a "User " line
C9_Witness ==
    \E p \in Procs :
        /\ Answered(p, "get_gemini_summary")
        /\ ~apiKey
        /\ StartsWith(proc[p].conversation_text, UserPrefix)

\* C3: after a DELETE answered 200, no other request running, no message and
\* no summary of that conversation id is in the store and the next GET of
\* the id is answered 404 (500 only if the store fails); a DELETE of an id
\* without messages is answered 404 and removes nothing.
C3_DeleteRemovesConversation ==
    /\ [](\A p \in Procs :
            (Answered(p, "delete_chat") /\ proc[p].status = 200) =>
                /\ proc[p].deleted_count >= 1
                /\ Conversation(proc[p].conversation_id) = {}
                /\ \A s \in summaries : s.conversation_id # proc[p].conversation_id)
    /\ [][\A p \in Procs :
            (/\ Answered(p, "delete_chat") /\ proc[p].status = 200
             /\ proc'[p].op = "retrieve_chat"
             /\ proc'[p].conversation_id = proc[p].conversation_id) =>
                \/ proc'[p].status = 404
                \/ storeFaulty /\ proc'[p].status = 500]_vars
    /\ [][\A p \in Procs :
            (/\ Ready(p) /\ proc'[p] # proc[p]
             /\ proc'[p].op = "delete_chat"
             /\ Conversation(proc'[p].conversation_id) = {}) =>
                /\ proc'[p].pc = "done"
                /\ chats' = chats /\ summaries' = summaries
                /\ \/ proc'[p].status = 404
                   \/ storeFaulty /\ proc'[p].status = 500]_vars

\* a DELETE answered 200 that removed the two messages of a conversation
C3_Witness ==
    \E p \in Procs :
        /\ Answered(p, "delete_chat")
        /\ proc[p].status = 200
        /\ proc[p].deleted_count = 2

\* C4: whatever the interleaving of concurrent summarize and delete requests
\* on a conversation id, once every request is answered no summary record
\* exists for a conversation id without stored messages.
C4_NoOrphanSummary ==
    (\A p \in Procs : Ready(p)) =>
        \A s \in summaries : Conversation(s.conversation_id) # {}

\* C5: a POST /chats without conversation_id stores the message under a
\* newly generated id that no stored message carries; a POST that carries an
\* id stores the message under that id; GET /chats/{id} answers with all the
\* messages of the id (up to the list cap) in ascending timestamp order.
C5_AutoIdThenAppend ==
    /\ [](\A p \in Procs :
            (Answered(p, "retrieve_chat") /\ proc[p].status = 200) =>
                LET ms  == proc[p].messages
                    all == Conversation(proc[p].conversation_id)
                IN  /\ \A i, j \in 1..Len(ms) :
                          i < j => ms[i].timestamp <= ms[j].timestamp
                    /\ Cardinality(all) <= ListCap =>
                          SeqToSet(ms) = all /\ Len(ms) = Cardinality(all))
    /\ [][\A p \in Sequential :
            (chats' # chats /\ proc'[p].op = "store_chat") =>
              \E d \in chats' \ chats :
                /\ chats' = chats \cup {d}
                /\ proc'[p].status = 201
                /\ d.conversation_id = proc'[p].stored
                /\ IF proc'[p].conversation_id \in {NoId, EmptyId}
                   THEN /\ d.conversation_id[1] = "oid"
                        /\ d.conversation_id \notin {m.conversation_id : m \in chats}
                   ELSE d.conversation_id = proc'[p].conversation_id]_vars

\* GET of an auto-assigned conversation id answering with its two messages,
\* the one stored second first because its timestamp is the earlier one
C5_Witness ==
    \E p \in Procs :
        /\ Answered(p, "retrieve_chat")
        /\ proc[p].status = 200
        /\ proc[p].conversation_id = ObjectId(1)
        /\ Len(proc[p].messages) = 2
        /\ proc[p].messages[1].id = ObjectId(3)
        /\ proc[p].messages[2].id = ObjectId(2)
        /\ proc[p].messages[1].timestamp < proc[p].messages[2].timestamp

\* C6: a summarize request for an id without messages is answered 404 (500
\* only if the store fails) without calling the summarizer or writing a
\* summary; no step of a summarize request removes or changes a summary
\* record; a request answered 200 adds exactly one record, for its id.
C6_SummariesAppendOnly ==
    [][\A p \in Procs :
         (proc'[p] # proc[p] /\ proc'[p].op = "summarize_chat") =>
            /\ summaries \subseteq summaries'
            /\ (Ready(p) /\ Conversation(proc'[p].conversation_id) = {}) =>
                  /\ proc'[p].pc = "done"
                  /\ proc'[p].calls = 0 /\ proc'[p].summary = <<>>
                  /\ summaries' = summaries
                  /\ \/ proc'[p].status = 404
                     \/ storeFaulty /\ proc'[p].status = 500
            /\ (proc'[p].pc = "done" /\ proc'[p].status = 200) =>
                  \E s \in summaries' \ summaries :
                      /\ summaries' = summaries \cup {s}
                      /\ s.conversation_id = proc'[p].conversation_id
                      /\ s.summary = proc'[p].summary]_vars

\* a second summary record stored for a conversation that already has one
C6_Witness ==
    \E p \in Procs :
        /\ Answered(p, "summarize_chat")
        /\ proc[p].status = 200
        /\ Cardinality({s \in summaries :
                          s.conversation_id = proc[p].conversation_id}) = 2

\* C8: a call of get_gemini_summary whose generation request is pending
\* eventually completes, also when the request is never answered, and the
\* enclosing summarize request is answered.
C8_PendingCallCompletes ==
    \A p \in Procs : (proc[p].pc = "gemini_wait") ~> (proc[p].pc = "done")

----------------------------------------------------------------------------
(* The fallback summarizer's participants, topics and snippets             *)

\* a sender identifier as the text before the first colon of a "User " line
\* with its leading "User " cut off and the rest trimmed
LeadingPrefixCut(line) ==
    LET before == Split1(line, ":")[1]
    IN  Strip(SubSeq(before, Len(UserPrefix) + 1, Len(before)))

SenderIds(conversation_text) ==
    LET lines == Split(Strip(conversation_text), "\n")
    IN  {LeadingPrefixCut(lines[i]) :
            i \in {j \in 1..Len(lines) : StartsWith(lines[j], UserPrefix)}}

\* C11: the participant count stated by generate_simple_summary is the number
\* of distinct sender identifiers, where the identifier of a line that starts
\* with "User " is the text before its first colon without the leading
\* "User " and trimmed; with no such line the count is 0 and the summary is
\* still returned.
C11_ParticipantsByLeadingPrefix ==
    \A p \in Procs :
        Answered(p, "generate_simple_summary") =>
            \E n \in 0..(Len(proc[p].conversation_text) + 1) :
                Reports(proc[p].summary, n, Cardinality(SenderIds(proc[p].conversation_text)))

\* the topics a summary lists, in the order it lists them
ListedTopics(summary) ==
    LET at == {i \in 1..Len(summary) : summary[i] = "Key topics appear to include: "}
    IN  IF at = {} THEN <<>>
        ELSE LET b     == SetMin(at)
                 e     == SetMin({j \in (b + 1)..Len(summary) : summary[j] = ". "})
                 items == Split(SubSeq(summary, b + 1, e - 1), ",")
             IN  [k \in 1..Len(items) |-> Strip(items[k])]

\* the lower-cased whitespace-delimited tokens of a transcript
Tokens(conversation_text) == SplitWords(Lower(conversation_text))

LongTokens(tokens) == {w \in SeqToSet(tokens) : Len(w) > 4}

Occurrences(w, tokens) == Cardinality({i \in 1..Len(tokens) : tokens[i] = w})

FirstOccurrence(w, tokens) == SetMin({i \in 1..Len(tokens) : tokens[i] = w})

\* u ranks before v: more occurrences, or as many and seen first
RanksBefore(u, v, tokens) ==
    \/ Occurrences(u, tokens) > Occurrences(v, tokens)
    \/ /\ Occurrences(u, tokens) = Occurrences(v, tokens)
       /\ FirstOccurrence(u, tokens) < FirstOccurrence(v, tokens)

\* C12: the key topics listed by generate_simple_summary are the first 5 (or
\* all, if fewer) of the distinct lower-cased whitespace-delimited tokens
\* longer than 4 characters, by descending occurrence count and, among equal
\* counts, in order of first occurrence; no shorter token is listed, and for
\* two senders saying "hello world" and "world hello" both words are listed.
C12_TopicsByCountThenFirstSeen ==
    \A p \in Procs :
        Answered(p, "generate_simple_summary") =>
            LET tokens == Tokens(proc[p].conversation_text)
                topics == ListedTopics(proc[p].summary)
                long   == LongTokens(tokens)
            IN  /\ Len(topics) = IF Cardinality(long) < 5 THEN Cardinality(long) ELSE 5
                /\ \A i \in 1..Len(topics) : topics[i] \in long
                /\ \A i \in 1..(Len(topics) - 1) :
                      RanksBefore(topics[i], topics[i + 1], tokens)
                /\ \A w \in long \ SeqToSet(topics) :
                      RanksBefore(topics[Len(topics)], w, tokens)
                /\ proc[p].conversation_text \in ExampleTexts =>
                      {<<"h", "e", "l", "l", "o">>, Vocabulary[2]} \subseteq SeqToSet(topics)

\* more than 5 long tokens and a short one; the listed topics have equal and
\* different counts, and a more frequent one was first seen after a rarer one
C12_Witness ==
    \E p \in Procs :
        /\ Answered(p, "generate_simple_summary")
        /\ LET tokens == Tokens(proc[p].conversation_text)
               topics == ListedTopics(proc[p].summary)
           IN  /\ Cardinality(LongTokens(tokens)) > 5
               /\ Len(topics) = 5
               /\ \E w \in SeqToSet(tokens) : Len(w) <= 4
               /\ Occurrences(topics[1], tokens) = Occurrences(topics[2], tokens)
               /\ Occurrences(topics[2], tokens) > Occurrences(topics[3], tokens)
               /\ Occurrences(topics[3], tokens) = Occurrences(topics[5], tokens)
               /\ FirstOccurrence(topics[2], tokens) > FirstOccurrence(topics[3], tokens)

\* the snippet quoted by the clause that opens with the chunk `clause` and
\* is closed by the chunk at position `close`
Snippet(summary, clause, close) ==
    LET b == SetMin({i \in 1..Len(summary) : summary[i] = clause})
    IN  SubSeq(summary, b + 1, close - 1)

StartSnippet(summary) ==
    Snippet(summary, "The conversation starts with '",
            SetMin({i \in 1..Len(summary) : summary[i] = "...' "}))

EndSnippet(summary) == Snippet(summary, "and ends with '", Len(summary))

\* the trimmed text after the first colon of a line, or the whole line
QuotedText(line) ==
    LET colons == {i \in 1..Len(line) : line[i] = ":"}
    IN  IF colons = {} THEN line
        ELSE Strip(SubSeq(line, SetMin(colons) + 1, Len(line)))

\* s is the first 30 characters of t, or all of t when t is shorter
LeadingPart(s, t) ==
    /\ Len(s) <= 30
    /\ Len(s) = IF Len(t) < 30 THEN Len(t) ELSE 30
    /\ s = SubSeq(t, 1, Len(s))

\* C13: the snippet quoted after "starts with" (after "ends with") is at most
\* 30 characters long and is the leading part of the trimmed text after the
\* first colon of the first (last) line, or of the whole line when the line
\* has no colon, however long the message is.
C13_SnippetsLeadThirty ==
    \A p \in Procs :
        (Answered(p, "generate_simple_summary")
            /\ HasChunk(proc[p].summary, "The conversation starts with '")) =>
            LET lines == Split(Strip(proc[p].conversation_text), "\n")
            IN  /\ HasChunk(proc[p].summary, "and ends with '")
                /\ LeadingPart(StartSnippet(proc[p].summary), QuotedText(lines[1]))
                /\ LeadingPart(EndSnippet(proc[p].summary),
                               QuotedText(lines[Len(lines)]))

\* a first line whose message after a colon, and a last line without colon
\* which, is longer than 30 characters
C13_Witness ==
    \E p \in Procs :
        /\ Answered(p, "generate_simple_summary")
        /\ LET lines == Split(Strip(proc[p].conversation_text), "\n")
           IN  /\ Len(lines) = 2
               /\ ":" \in SeqToSet(lines[1])
               /\ Len(QuotedText(lines[1])) > 30
               /\ ":" \notin SeqToSet(lines[2])
               /\ Len(lines[2]) > 30
               /\ Len(StartSnippet(proc[p].summary)) = 30
               /\ Len(EndSnippet(proc[p].summary)) = 30

----------------------------------------------------------------------------
(* The stored messages across requests                                     *)

\* slot p takes a step of DELETE /chats/{c}
DeleteStep(p, c) ==
    /\ proc'[p].op = "delete_chat"
    /\ proc'[p].conversation_id = c
    /\ proc[p].pc \in {"idle", "done", "delete_summaries"}

\* C14: a stored message is never updated and leaves the store only in a
\* DELETE of its own conversation id; a step of store, bulk store, retrieve,
\* summarize, user history or health keeps every stored message with all its
\* fields, and a DELETE of c keeps the messages and the summaries of every
\* other conversation id.
C14_StoredMessagesFrame ==
    [][/\ \A m \in chats \ chats' :
             /\ \E p \in Procs : DeleteStep(p, m.conversation_id)
             /\ \A d \in chats' : d.id # m.id
       /\ \A s \in summaries \ summaries' :
             \E p \in Procs : DeleteStep(p, s.conversation_id)
       /\ \A p \in Procs :
             (proc'[p] # proc[p] /\ proc'[p].op # "delete_chat") =>
                 chats \subseteq chats' /\ summaries \subseteq summaries'
       /\ \A p \in Procs : \A c \in LookupIds(p) \cup {proc[p].conversation_id} :
             DeleteStep(p, c) /\ <<chats', summaries'>> # <<chats, summaries>> =>
                 /\ {m \in chats : m.conversation_id # c} \subseteq chats'
                 /\ {x \in summaries : x.conversation_id # c} \subseteq summaries'
      ]_vars

\* a DELETE answered 200 that removed a conversation and its summary while a
\* message and a summary of another conversation are still stored
C14_Witness ==
    \E p \in Procs :
        /\ Answered(p, "delete_chat") /\ proc[p].status = 200
        /\ \E m \in chats : m.conversation_id # proc[p].conversation_id
        /\ \E x \in summaries : x.conversation_id # proc[p].conversation_id

----------------------------------------------------------------------------
(* The pages of a user's history                                           *)

\* the messages of user_id whose timestamp is within the inclusive bounds
InRange(user_id, start_date, end_date) ==
    {m \in chats :
        /\ m.user_id = user_id
        /\ start_date = NoDate \/ m.timestamp >= start_date
        /\ end_date = NoDate \/ m.timestamp <= end_date}

\* GET /users/{user_id}/chats without keyword was answered 200 in slot r
HistoryPage(r) ==
    r.op = "get_user_chats" /\ r.pc = "done" /\ r.status = 200 /\ r.query[6] = NoKeyword

\* one answer: total counts the user's messages within the bounds, and chats
\* is the slice at offsets (page-1)*limit .. page*limit-1 of them in an order
\* that descends by timestamp
HistoryPageIsSlice ==
    \A p \in Procs :
        /\ (Answered(p, "get_user_chats") /\ ~storeFaulty) => proc[p].status = 200
        /\ HistoryPage(proc[p]) =>
              LET q     == proc[p].query
                  all   == InRange(q[1], q[4], q[5])
                  skip  == (q[2] - 1) * q[3]
                  rest  == IF proc[p].total - skip > 0 THEN proc[p].total - skip ELSE 0
              IN  /\ proc[p].total = Cardinality(all)
                  /\ Len(proc[p].messages) = IF q[3] < rest THEN q[3] ELSE rest
                  /\ \E sorted \in SortedDesc(all) :
                        proc[p].messages =
                            SubSeq(sorted, skip + 1, skip + Len(proc[p].messages))

\* two answers in a row, to page and to page + 1 of the same query: the pages
\* share no message, and pages 1 and 2 hold every match when there are at
\* most 2 * limit matches
SuccessivePagesPartition ==
    \A p \in Procs :
        (/\ HistoryPage(proc[p]) /\ HistoryPage(proc'[p])
         /\ proc'[p].query = [proc[p].query EXCEPT ![2] = @ + 1]) =>
            LET q    == proc[p].query
                one  == SeqToSet(proc[p].messages)
                next == SeqToSet(proc'[p].messages)
            IN  /\ one \cap next = {}
                /\ (q[2] = 1 /\ proc[p].total <= 2 * q[3]) =>
                      one \cup next = InRange(q[1], q[4], q[5])

\* C15: with no write in between, GET /users/{user_id}/chats with page >= 1
\* and limit in 1..100 is answered 200 also when nothing matches; total is
\* the number of the user's messages within the inclusive start_date and
\* end_date, whatever page and limit are; chats is the slice at offsets
\* (page-1)*limit .. page*limit-1 of those messages by descending timestamp,
\* of min(limit, max(0, total-(page-1)*limit)) items; successive pages are
\* disjoint and together hold every match.
C15_PagesPartitionMatches ==
    []HistoryPageIsSlice /\ [][SuccessivePagesPartition]_vars

----------------------------------------------------------------------------
(* The message count of a summarized conversation                          *)

\* C16: when POST /chats/summarize is answered with the fallback summary, the
\* message count the summary states is the number of messages stored under
\* the conversation id (one transcript line per stored message), whatever
\* the message bodies contain, newlines included.
C16_CountsStoredMessages ==
    \A p \in Procs :
        (/\ Answered(p, "summarize_chat") /\ proc[p].status = 200
         /\ HasChunk(proc[p].summary, "This conversation consists of ")) =>
            \E k \in 0..Cardinality(chats) :
                Reports(proc[p].summary,
                        Cardinality(Conversation(proc[p].conversation_id)), k)

====
